---------------------------- MODULE Spec2Model ----------------------------
(***************************************************************************)
(* Price ingestion service: archive of CSV files -> validation -> dedup -> *)
(* PostgreSQL table "prices".  Two builds of the handler exist in the      *)
(* repository and both are modelled over the same table:                   *)
(*   "id"      : src/main.go      uploadPrices (identifier-keyed)          *)
(*   "content" : src/handlers.go  uploadPrices (content-keyed)             *)
(* Text is a sequence of one-character strings, so that trimming and       *)
(* parsing are computed, not assumed.  A float64 price is an exact decimal *)
(* with FracDigits fractional digits, or NaN.                              *)
(***************************************************************************)
EXTENDS Integers, Sequences, FiniteSets, TLC

(* ------------------------------ bounds -------------------------------- *)
\* fractional digits a parsed price keeps (resolution of the float model)
FracDigits == 3
\* files per archive
MaxFiles == 2
\* data rows per archive, over all its files
MaxRows == 2

(* --------------------------- text helpers ----------------------------- *)
Digits == {"0", "1", "2", "3", "4", "5", "6", "7", "8", "9"}

DigitChars == <<"0", "1", "2", "3", "4", "5", "6", "7", "8", "9">>

DigitVal(c) == (CHOOSE i \in 1..10 : DigitChars[i] = c) - 1

AllDigits(s) == \A i \in 1..Len(s) : s[i] \in Digits

RECURSIVE DigitsVal(_)
DigitsVal(s) ==
  IF s = <<>> THEN 0
  ELSE DigitsVal(SubSeq(s, 1, Len(s) - 1)) * 10 + DigitVal(s[Len(s)])

RECURSIVE Pow10(_)
Pow10(n) == IF n = 0 THEN 1 ELSE 10 * Pow10(n - 1)

\* strings.TrimSpace: leading and trailing white space removed
RECURSIVE TrimLeft(_)
TrimLeft(s) ==
  IF s # <<>> /\ s[1] = " " THEN TrimLeft(Tail(s)) ELSE s

RECURSIVE TrimRight(_)
TrimRight(s) ==
  IF s # <<>> /\ s[Len(s)] = " " THEN TrimRight(SubSeq(s, 1, Len(s) - 1)) ELSE s

TrimSpace(s) == TrimRight(TrimLeft(s))

\* position of the first "." of s, 0 when there is none
DotPos(s) ==
  IF \E i \in 1..Len(s) : s[i] = "."
  THEN CHOOSE i \in 1..Len(s) : s[i] = "." /\ \A j \in 1..(i - 1) : s[j] # "."
  ELSE 0

Unsigned(s) == IF s # <<>> /\ s[1] \in {"+", "-"} THEN Tail(s) ELSE s

Negative(s) == s # <<>> /\ s[1] = "-"

\* strconv.Atoi: optional sign, then one or more decimal digits
Atoi(s) ==
  LET u == Unsigned(s) IN
  IF u # <<>> /\ AllDigits(u)
  THEN [ok |-> TRUE, v |-> IF Negative(s) THEN 0 - DigitsVal(u) ELSE DigitsVal(u)]
  ELSE [ok |-> FALSE, v |-> 0]

\* a float64: NaN, or the decimal m / 10^FracDigits
NaN == [nan |-> TRUE, m |-> 0]

Num(m) == [nan |-> FALSE, m |-> m]

\* strconv.ParseFloat(s, 64) on decimal notation and on "NaN" (any case):
\* optional sign, digits, optional "." and digits, one digit at least.
\* Digits after the FracDigits-th fractional one are not representable and
\* do not occur in the inputs.
ParseFloat(s) ==
  LET u == Unsigned(s)
      d == DotPos(u)
      ip == IF d = 0 THEN u ELSE SubSeq(u, 1, d - 1)
      fp == IF d = 0 THEN <<>> ELSE SubSeq(u, d + 1, Len(u))
      mag == DigitsVal(ip) * Pow10(FracDigits)
             + DigitsVal(fp) * Pow10(FracDigits - Len(fp))
  IN
  IF s \in {<<"N", "a", "N">>, <<"n", "a", "n">>, <<"N", "A", "N">>}
  THEN [ok |-> TRUE, v |-> NaN]
  ELSE IF /\ AllDigits(ip) /\ AllDigits(fp) /\ Len(ip) + Len(fp) > 0
          /\ Len(fp) <= FracDigits
       THEN [ok |-> TRUE, v |-> Num(IF Negative(s) THEN 0 - mag ELSE mag)]
       ELSE [ok |-> FALSE, v |-> Num(0)]

\* Go's "price <= 0": every comparison with NaN is false
LeqZero(p) == ~p.nan /\ p.m <= 0

\* days of a month, as time.Parse validates the day
IsLeap(y) == (y % 4 = 0 /\ y % 100 # 0) \/ y % 400 = 0

DaysIn(y, mo) ==
  IF mo = 2 THEN (IF IsLeap(y) THEN 29 ELSE 28)
  ELSE IF mo \in {4, 6, 9, 11} THEN 30 ELSE 31

\* time.Parse("2006-01-02", s): exactly YYYY-MM-DD with a real calendar day.
\* The value is the day number y*10000 + mo*100 + d, which orders as dates do.
ParseDate(s) ==
  IF /\ Len(s) = 10
     /\ s[5] = "-" /\ s[8] = "-"
     /\ AllDigits(SubSeq(s, 1, 4)) /\ AllDigits(SubSeq(s, 6, 7))
     /\ AllDigits(SubSeq(s, 9, 10))
  THEN LET y == DigitsVal(SubSeq(s, 1, 4))
           mo == DigitsVal(SubSeq(s, 6, 7))
           d == DigitsVal(SubSeq(s, 9, 10))
       IN IF mo \in 1..12 /\ d \in 1..DaysIn(y, mo)
          THEN [ok |-> TRUE, v |-> y * 10000 + mo * 100 + d]
          ELSE [ok |-> FALSE, v |-> 0]
  ELSE [ok |-> FALSE, v |-> 0]

(* ------------------------------ inputs --------------------------------- *)
D1 == <<"2", "0", "2", "4", "-", "0", "1", "-", "1", "5">>

P100 == <<"1", ".", "0", "0">>

Hdr5 == << <<"i", "d">>, <<"n", "a", "m", "e">>, <<"c", "a", "t">>,
           <<"p", "r", "i", "c", "e">>, <<"d", "a", "t", "e">> >>

Hdr4 == << <<"i", "d">>, <<"n", "a", "m", "e">>, <<"c", "a", "t">>,
           <<"p", "r", "i", "c", "e">> >>

\* two valid rows of equal content and different identifiers
RowA == << <<"1">>, <<"a">>, <<"c">>, P100, D1 >>

RowB == << <<"2">>, <<"a">>, <<"c">>, P100, D1 >>

\* a valid row whose price has a third decimal
RowC == << <<"3">>, <<"b">>, <<"d">>, <<"0", ".", "0", "0", "4">>, D1 >>

\* a row of four columns
RowShort == << <<"4">>, <<"a">>, <<"c">>, P100 >>

\* a row whose price is not positive
RowZero == << <<"5">>, <<"a">>, <<"c">>, <<"0">>, D1 >>

Headers == {Hdr5, Hdr4}

DataRows == {RowA, RowB, RowC, RowShort, RowZero}

\* a CSV file as encoding/csv splits it: its rows, the first one the
\* header; FilesOver(hs, rs, n) are the files of n data rows
FilesOver(hs, rs, n) == {<<h>> \o d : h \in hs, d \in [1..n -> rs]}

RECURSIVE RowCount(_)
RowCount(files) ==
  IF files = <<>> THEN 0
  ELSE (IF Head(files) = <<>> THEN 0 ELSE Len(Head(files)) - 1)
       + RowCount(Tail(files))

\* the CSV members of an uploaded archive, in archive order: at most k
\* files that hold at most n data rows together
RECURSIVE ArchivesOver(_, _, _, _)
ArchivesOver(hs, rs, k, n) ==
  IF k = 0 THEN {<<>>}
  ELSE {<<>>} \cup
       UNION {{<<f>> \o rest : f \in FilesOver(hs, rs, m),
                               rest \in ArchivesOver(hs, rs, k - 1, n - m)} :
              m \in 0..n}

Archives == ArchivesOver(Headers, DataRows, MaxFiles, MaxRows)

(* ------------------------- archive extraction -------------------------- *)
UpperChars == <<"A", "C", "D", "S", "T", "V">>

LowerChars == <<"a", "c", "d", "s", "t", "v">>

\* strings.ToLower, over the letters the entry names use
ToLower(s) ==
  [i \in 1..Len(s) |->
     IF \E j \in 1..Len(UpperChars) : UpperChars[j] = s[i]
     THEN LowerChars[CHOOSE j \in 1..Len(UpperChars) : UpperChars[j] = s[i]]
     ELSE s[i]]

HasPrefix(s, p) == Len(s) >= Len(p) /\ SubSeq(s, 1, Len(p)) = p

HasSuffix(s, p) ==
  Len(s) >= Len(p) /\ SubSeq(s, Len(s) - Len(p) + 1, Len(s)) = p

RECURSIVE StripSlashes(_)
StripSlashes(s) ==
  IF s # <<>> /\ s[Len(s)] = "/" THEN StripSlashes(SubSeq(s, 1, Len(s) - 1))
  ELSE s

\* filepath.Base: trailing separators removed, then the last element; "."
\* for the empty path and "/" for a path of separators only
Base(path) ==
  LET p == StripSlashes(path)
      cut == IF \E i \in 1..Len(p) : p[i] = "/"
             THEN CHOOSE i \in 1..Len(p) :
                    p[i] = "/" /\ \A j \in (i + 1)..Len(p) : p[j] # "/"
             ELSE 0
  IN IF path = <<>> THEN <<".">>
     ELSE IF p = <<>> THEN <<"/">>
     ELSE SubSeq(p, cut + 1, Len(p))

DotUnderscore == <<".", "_">>

DotCsv == <<".", "c", "s", "v">>

\* [mutant] the "._" test made on the full name instead of the base name
SelectedByFullName(name) ==
  /\ ~HasPrefix(name, DotUnderscore)
  /\ HasSuffix(ToLower(name), DotCsv)

\* the two name tests of extractCSVFiles (lines 288-295, 312-319)
Selected(name) ==
  /\ ~HasPrefix(Base(name), DotUnderscore)
  /\ HasSuffix(ToLower(name), DotCsv)

\* csvFileData: name and content, the content as encoding/csv splits it
csvFileData(e) == [name |-> e.name, content |-> e.content]

\* [mutant] the tar branch handing back, at a damaged entry, the files read
\* so far
RECURSIVE TarFilesPartial(_, _, _)
TarFilesPartial(entries, n, csvFiles) ==
  IF n > Len(entries) THEN [nil |-> csvFiles = <<>>, files |-> csvFiles]
  ELSE LET e == entries[n] IN
       IF ~e.hdr \/ ~e.body THEN [nil |-> csvFiles = <<>>, files |-> csvFiles]
       ELSE IF e.typ # "reg" \/ ~Selected(e.name)
       THEN TarFilesPartial(entries, n + 1, csvFiles)
       ELSE TarFilesPartial(entries, n + 1, Append(csvFiles, csvFileData(e)))

\* the tar branch (lines 273-304) from entry n on: tarReader.Next fails on a
\* corrupt header, and on a truncated body when it has to skip to the next
\* header; io.ReadAll fails on the truncated body of a selected entry
RECURSIVE TarFiles(_, _, _)
TarFiles(entries, n, csvFiles) ==
  IF n > Len(entries) THEN [nil |-> csvFiles = <<>>, files |-> csvFiles]
  ELSE LET e == entries[n] IN
       IF ~e.hdr \/ ~e.body THEN [nil |-> TRUE, files |-> <<>>]
       ELSE IF e.typ # "reg" \/ ~Selected(e.name)
       THEN TarFiles(entries, n + 1, csvFiles)
       ELSE TarFiles(entries, n + 1, Append(csvFiles, csvFileData(e)))

\* the zip branch (lines 305-334): only a selected entry is opened and read
RECURSIVE ZipFiles(_, _, _)
ZipFiles(entries, n, csvFiles) ==
  IF n > Len(entries) THEN [nil |-> csvFiles = <<>>, files |-> csvFiles]
  ELSE LET e == entries[n] IN
       IF ~Selected(e.name) THEN ZipFiles(entries, n + 1, csvFiles)
       ELSE IF ~e.hdr \/ ~e.body THEN [nil |-> TRUE, files |-> <<>>]
       ELSE ZipFiles(entries, n + 1, Append(csvFiles, csvFileData(e)))

\* extractCSVFiles(data, archiveType): data in the format data.format with
\* directory data.dirOk and entries data.entries.  Bytes of the other
\* format are no tar header and hold no zip directory.  A slice that was
\* never appended to is nil.
extractCSVFiles(data, archiveType) ==
  IF archiveType = "tar"
  THEN IF data.format # "tar" THEN [nil |-> TRUE, files |-> <<>>]
       ELSE TarFiles(data.entries, 1, <<>>)
  ELSE IF data.format # "zip" \/ ~data.dirOk THEN [nil |-> TRUE, files |-> <<>>]
       ELSE ZipFiles(data.entries, 1, <<>>)

\* the contents of the extracted files, in order
Contents(files) == [n \in 1..Len(files) |-> files[n].content]

(* ------------------------------- state --------------------------------- *)
VARIABLES
  build,    \* the build that is running: "id" or "content"
  store,    \* the committed rows of table prices
  conn,     \* the one connection db: "idle", "tx", "failed" (aborted
            \* transaction) or "closed"
  txRows,   \* rows written by the connection's open transaction
  req       \* per request slot: the handler's position and locals

vars == <<build, store, conn, txRows, req>>

Slots == {1, 2}

Builds == {"id", "content"}

NoResp ==
  [status |-> 0, err |-> "none", total_count |-> 0, duplicates_count |-> 0,
   total_items |-> 0, total_categories |-> 0, total_price |-> Num(0)]

Failure(e) == [NoResp EXCEPT !.status = 500, !.err = e]

\* no upload
NoData == [format |-> "zip", dirOk |-> TRUE, entries |-> <<>>]

\* no export bound: start, end, min and max all empty
NoQuery == [start |-> <<>>, end |-> <<>>, min |-> <<>>, max |-> <<>>]

IdleReq ==
  [pc |-> "idle", data |-> NoData, archiveType |-> "zip",
   query |-> NoQuery, csvData |-> <<>>,
   archive |-> <<>>, recs |-> <<>>, i |-> 1, f |-> 1, k |-> 1,
   totalCount |-> 0, dups |-> 0, inserted |-> 0, cats |-> {},
   total |-> Num(0), seen |-> {}, resp |-> NoResp, before |-> {},
   wrote |-> {}]

InFlight(r) == req[r].pc \notin {"idle", "done"}

(* ------------------------------ storage -------------------------------- *)
\* price DECIMAL(10, 2): a numeric is rounded to two decimals, half away
\* from zero, when it is assigned to the column; the value is in cents
Round2(p) ==
  LET unit == Pow10(FracDigits - 2)
      mag == IF p.m < 0 THEN 0 - p.m ELSE p.m
      c == (mag + unit \div 2) \div unit
  IN [nan |-> p.nan, c |-> IF p.nan THEN 0 ELSE IF p.m < 0 THEN 0 - c ELSE c]

\* a stored numeric read back as float64
ToFloat(n) == [nan |-> n.nan, m |-> n.c * Pow10(FracDigits - 2)]

\* the value an INSERT gives column id: v, or no value at all
IdOf(v) == [null |-> FALSE, v |-> v]

NoId == [null |-> TRUE, v |-> 0]

MaxId(t) == IF t = {} THEN 0 ELSE CHOOSE n \in {x.id : x \in t} : \A x \in t : x.id <= n

\* [mutant] the table declared with id SERIAL: an INSERT that gives no id
\* gets the next one
ExecInsertSerial(t, vals) ==
  LET id == IF vals.id.null THEN MaxId(t) + 1 ELSE vals.id.v IN
  [ok |-> \A x \in t : x.id # id,
   row |-> [id |-> id, name |-> vals.name, category |-> vals.category,
            price |-> Round2(vals.price), create_date |-> vals.create_date]]

\* An INSERT of vals into the table whose visible rows are t: rejected when
\* id is null (id INTEGER NOT NULL, no default) or already present
\* (PRIMARY KEY (id)); otherwise the row that is stored.
ExecInsert(t, vals) ==
  [ok |-> ~vals.id.null /\ \A x \in t : x.id # vals.id.v,
   row |-> [id |-> vals.id.v, name |-> vals.name, category |-> vals.category,
            price |-> Round2(vals.price), create_date |-> vals.create_date]]

\* the rows a statement on the connection sees
Visible == IF conn = "tx" THEN store \cup txRows ELSE store

\* a statement can run: the connection is open and not in an aborted
\* transaction
Usable == conn \in {"idle", "tx"}

\* The outcomes of handing a statement to the connection: "ok", "busy"
\* (another request is using the connection: pgx refuses, nothing is sent) or
\* "lost" (the connection breaks).
Outcomes(r) ==
  {"ok", "lost"} \cup (IF \E q \in Slots \ {r} : InFlight(q) THEN {"busy"} ELSE {})

\* WHERE name = $1 AND category = $2 AND price = $3 AND create_date = $4:
\* the stored two-decimal price against the float64 parameter
ContentMatch(x, rec) ==
  /\ x.name = rec.name /\ x.category = rec.category
  /\ ToFloat(x.price) = rec.price /\ x.create_date = rec.createDate

SameContent(x, y) ==
  /\ x.name = y.name /\ x.category = y.category
  /\ x.price = y.price /\ x.create_date = y.create_date

(* --------------------- parsing and validation -------------------------- *)
\* csv.Reader.ReadAll with FieldsPerRecord = 0: every record must have as
\* many fields as the first one, else the whole read fails
ReadAll(file) ==
  [ok |-> \A n \in 1..Len(file) : Len(file[n]) = Len(file[1]), records |-> file]

\* handlers.go: the checks of one data row, and the record it yields
ValidateContent(record) ==
  IF Len(record) < 5 THEN [ok |-> FALSE, rec |-> <<>>]
  ELSE
    LET name == TrimSpace(record[2])
        category == TrimSpace(record[3])
        price == ParseFloat(TrimSpace(record[4]))
        createDate == ParseDate(TrimSpace(record[5]))
    IN IF name = <<>> \/ category = <<>> THEN [ok |-> FALSE, rec |-> <<>>]
       ELSE IF ~price.ok \/ LeqZero(price.v) THEN [ok |-> FALSE, rec |-> <<>>]
       ELSE IF ~createDate.ok THEN [ok |-> FALSE, rec |-> <<>>]
       ELSE [ok |-> TRUE,
             rec |-> [name |-> name, category |-> category,
                      price |-> price.v, createDate |-> createDate.v]]

\* the valid records of rows n.. of one file, the row at index 1 skipped
RECURSIVE FileRecords(_, _)
FileRecords(records, n) ==
  IF n > Len(records) THEN <<>>
  ELSE LET v == ValidateContent(records[n]) IN
       (IF n > 1 /\ v.ok THEN <<v.rec>> ELSE <<>>) \o FileRecords(records, n + 1)

\* handlers.go: the loop over csvFiles; a file that cannot be read ends the
\* request
RECURSIVE ParseContent(_)
ParseContent(files) ==
  IF files = <<>> THEN [ok |-> TRUE, recs |-> <<>>]
  ELSE LET ra == ReadAll(Head(files)) IN
       IF ~ra.ok THEN [ok |-> FALSE, recs |-> <<>>]
       ELSE LET rest == ParseContent(Tail(files)) IN
            [ok |-> rest.ok,
             recs |-> IF rest.ok THEN FileRecords(ra.records, 1) \o rest.recs
                      ELSE <<>>]

(* ------------------------------ start-up ------------------------------- *)
\* main: connect, then initDB (CREATE TABLE IF NOT EXISTS keeps the rows of
\* an existing table)
Boot(b) ==
  /\ \A r \in Slots : req[r].pc = "idle"
  /\ build' = b
  /\ conn' = "idle"
  /\ txRows' = {}
  /\ UNCHANGED <<store, req>>

Init ==
  /\ build \in Builds
  /\ store = {}
  /\ conn = "idle"
  /\ txRows = {}
  /\ req = [r \in Slots |-> IdleReq]

(* ----------------- content-keyed upload (handlers.go) ------------------ *)
\* lines 27-103: the archive's CSV members are parsed and validated; an
\* archive without a CSV member leaves csvFiles nil (lines 52-56)
Parsed(a, t) ==
  LET p == ParseContent(a) IN
  IF a = <<>>
  THEN [IdleReq EXCEPT !.pc = "done", !.archive = a, !.before = t,
                       !.resp = Failure("archive")]
  ELSE IF p.ok
  THEN [IdleReq EXCEPT !.pc = "begin", !.archive = a, !.recs = p.recs,
                       !.before = t]
  ELSE [IdleReq EXCEPT !.pc = "done", !.archive = a, !.before = t,
                       !.resp = Failure("csv")]

ReceiveContent(r, a) ==
  /\ build = "content"
  /\ req[r].pc = "idle"
  /\ req' = [req EXCEPT ![r] = Parsed(a, store)]
  /\ UNCHANGED <<build, store, conn, txRows>>

\* lines 27-103 from the uploaded bytes on: extractCSVFiles, then the same
UploadContent(r, data, archiveType) ==
  /\ build = "content"
  /\ req[r].pc = "idle"
  /\ LET x == extractCSVFiles(data, archiveType) IN
     req' = [req EXCEPT ![r] =
       [Parsed(IF x.nil THEN <<>> ELSE Contents(x.files), store)
          EXCEPT !.data = data, !.archiveType = archiveType]]
  /\ UNCHANGED <<build, store, conn, txRows>>

AfterRecord(rq) ==
  [rq EXCEPT !.i = rq.i + 1,
             !.pc = IF rq.i + 1 > Len(rq.recs) THEN "commit" ELSE "exists"]

\* lines 105-110: db.Begin; pgx closes the connection when BEGIN fails
Begin(r) ==
  /\ req[r].pc = "begin"
  /\ \E o \in Outcomes(r) :
       IF o = "ok" /\ Usable
       THEN /\ conn' = "tx"
            /\ req' = [req EXCEPT ![r] =
                 [@ EXCEPT !.pc =
                    IF req[r].recs = <<>> THEN "commit" ELSE "exists"]]
            /\ UNCHANGED txRows
       ELSE /\ conn' = "closed"
            /\ txRows' = {}
            /\ req' = [req EXCEPT ![r] =
                 [@ EXCEPT !.pc = "done", !.resp = Failure("begin")]]
  /\ UNCHANGED <<build, store>>

\* [mutant] a record found in the table skipped without being counted
ExistsUncounted(r) ==
  /\ req[r].pc = "exists"
  /\ LET rq == req[r]
         rec == rq.recs[rq.i]
     IN \E o \in Outcomes(r) :
       IF o = "ok" /\ Usable
       THEN /\ req' = [req EXCEPT ![r] =
                 IF \E x \in Visible : ContentMatch(x, rec)
                 THEN AfterRecord(rq)
                 ELSE [rq EXCEPT !.pc = "insert"]]
            /\ UNCHANGED <<conn, txRows>>
       ELSE /\ req' = [req EXCEPT ![r] =
                 [rq EXCEPT !.pc = "rollback", !.resp = Failure("database")]]
            /\ conn' = IF o = "lost" THEN "closed" ELSE conn
            /\ txRows' = IF o = "lost" THEN {} ELSE txRows
  /\ UNCHANGED <<build, store>>

\* lines 118-130: SELECT EXISTS(...) for the record at i
Exists(r) ==
  /\ req[r].pc = "exists"
  /\ LET rq == req[r]
         rec == rq.recs[rq.i]
     IN \E o \in Outcomes(r) :
       IF o = "ok" /\ Usable
       THEN /\ req' = [req EXCEPT ![r] =
                 IF \E x \in Visible : ContentMatch(x, rec)
                 THEN AfterRecord([rq EXCEPT !.dups = rq.dups + 1])
                 ELSE [rq EXCEPT !.pc = "insert"]]
            /\ UNCHANGED <<conn, txRows>>
       ELSE /\ req' = [req EXCEPT ![r] =
                 [rq EXCEPT !.pc = "rollback", !.resp = Failure("database")]]
            /\ conn' = IF o = "lost" THEN "closed" ELSE conn
            /\ txRows' = IF o = "lost" THEN {} ELSE txRows
  /\ UNCHANGED <<build, store>>

Plus(p, q) == [nan |-> p.nan \/ q.nan, m |-> IF p.nan \/ q.nan THEN 0 ELSE p.m + q.m]

\* [mutant] the insert sent with db.Exec, outside the transaction, to a
\* table that generates the id
InsertDirect(r) ==
  /\ req[r].pc = "insert"
  /\ LET rq == req[r]
         rec == rq.recs[rq.i]
         res == ExecInsertSerial(store,
                  [id |-> NoId, name |-> rec.name, category |-> rec.category,
                   price |-> rec.price, create_date |-> rec.createDate])
     IN \E o \in Outcomes(r) :
       IF o = "ok" /\ Usable /\ res.ok
       THEN /\ req' = [req EXCEPT ![r] =
                 AfterRecord([rq EXCEPT !.inserted = rq.inserted + 1,
                                        !.wrote = rq.wrote \cup {res.row}])]
            /\ store' = store \cup {res.row}
            /\ UNCHANGED <<conn, txRows>>
       ELSE /\ req' = [req EXCEPT ![r] =
                 [rq EXCEPT !.pc = "rollback", !.resp = Failure("insert")]]
            /\ conn' = IF o = "lost" THEN "closed" ELSE conn
            /\ txRows' = IF o = "lost" THEN {} ELSE txRows
            /\ UNCHANGED store
  /\ UNCHANGED build

\* lines 132-142: INSERT INTO prices (name, category, price, create_date)
Insert(r) ==
  /\ req[r].pc = "insert"
  /\ LET rq == req[r]
         rec == rq.recs[rq.i]
         res == ExecInsert(Visible,
                  [id |-> NoId, name |-> rec.name, category |-> rec.category,
                   price |-> rec.price, create_date |-> rec.createDate])
     IN \E o \in Outcomes(r) :
       IF o = "ok" /\ Usable /\ res.ok
       THEN /\ req' = [req EXCEPT ![r] =
                 AfterRecord([rq EXCEPT !.inserted = rq.inserted + 1,
                                        !.cats = rq.cats \cup {rec.category},
                                        !.total = Plus(rq.total, rec.price),
                                        !.wrote = rq.wrote \cup {res.row}])]
            /\ txRows' = IF conn = "tx" THEN txRows \cup {res.row} ELSE txRows
            /\ store' = IF conn = "tx" THEN store ELSE store \cup {res.row}
            /\ UNCHANGED conn
       ELSE /\ req' = [req EXCEPT ![r] =
                 [rq EXCEPT !.pc = "rollback", !.resp = Failure("insert")]]
            /\ conn' = IF o = "lost" THEN "closed"
                       ELSE IF o = "ok" /\ conn = "tx" THEN "failed" ELSE conn
            /\ txRows' = IF o = "lost" THEN {} ELSE txRows
            /\ UNCHANGED store
  /\ UNCHANGED build

\* lines 145-156: tx.Commit, then the summary.  COMMIT of an aborted
\* transaction rolls back and is an error; pgx closes the connection when
\* the statement itself fails.  The deferred Rollback is then a no-op.
Commit(r) ==
  /\ req[r].pc = "commit"
  /\ LET rq == req[r] IN
     \E o \in Outcomes(r) :
       IF o = "ok" /\ Usable
       THEN /\ store' = store \cup txRows
            /\ txRows' = {}
            /\ conn' = "idle"
            /\ req' = [req EXCEPT ![r] = [rq EXCEPT !.pc = "done", !.resp =
                 [status |-> 200, err |-> "none",
                  total_count |-> Len(rq.recs),
                  duplicates_count |-> rq.dups,
                  total_items |-> rq.inserted,
                  total_categories |-> Cardinality(rq.cats),
                  total_price |-> rq.total]]]
       ELSE /\ conn' = IF o = "ok" /\ conn = "failed" THEN "idle"
                       ELSE IF o = "busy" /\ conn = "idle" THEN "idle"
                       ELSE "closed"
            /\ txRows' = {}
            /\ req' = [req EXCEPT ![r] =
                 [rq EXCEPT !.pc = "done", !.resp = Failure("commit")]]
            /\ UNCHANGED store
  /\ UNCHANGED build

\* line 110: the deferred tx.Rollback after a failed query or insert; pgx
\* closes the connection when ROLLBACK fails
Rollback(r) ==
  /\ req[r].pc = "rollback"
  /\ \E o \in Outcomes(r) :
       /\ conn' = IF o = "ok" /\ conn # "closed" THEN "idle" ELSE "closed"
       /\ txRows' = {}
  /\ req' = [req EXCEPT ![r] = [@ EXCEPT !.pc = "done"]]
  /\ UNCHANGED <<build, store>>

\* the response is delivered and the handler's goroutine ends
Finish(r) ==
  /\ req[r].pc = "done"
  /\ req' = [req EXCEPT ![r] = IdleReq]
  /\ UNCHANGED <<build, store, conn, txRows>>

ContentStep(r) ==
  \/ Begin(r)
  \/ Exists(r)
  \/ Insert(r)
  \/ Commit(r)
  \/ Rollback(r)

(* ------------------- identifier-keyed upload (main.go) ----------------- *)
\* lines 81-195: the archive's CSV members are extracted
ReceiveId(r, a) ==
  /\ build = "id"
  /\ req[r].pc = "idle"
  /\ req' = [req EXCEPT ![r] =
       [IdleReq EXCEPT !.pc = IF a = <<>> THEN "stats" ELSE "row",
                       !.archive = a, !.before = store]]
  /\ UNCHANGED <<build, store, conn, txRows>>

\* the loops of lines 198 and 210 move on: next row, next file, or the
\* insert loop of line 272
AfterRow(rq) ==
  IF rq.k + 1 <= Len(rq.archive[rq.f]) THEN [rq EXCEPT !.k = rq.k + 1]
  ELSE IF rq.f + 1 <= Len(rq.archive) THEN [rq EXCEPT !.f = rq.f + 1, !.k = 1]
  ELSE [rq EXCEPT !.pc = IF rq.recs = <<>> THEN "stats" ELSE "idinsert", !.i = 1]

\* lines 215-241: the checks of one data row that use no storage; "short"
\* rows are not counted, "invalid" ones are
ValidateId(record) ==
  IF Len(record) < 5 THEN [kind |-> "short", id |-> 0]
  ELSE
    LET id == Atoi(TrimSpace(record[1]))
        price == ParseFloat(TrimSpace(record[4]))
        date == ParseDate(TrimSpace(record[5]))
        name == TrimSpace(record[2])
        category == TrimSpace(record[3])
    IN IF ~id.ok THEN [kind |-> "invalid", id |-> 0]
       ELSE IF ~price.ok \/ LeqZero(price.v) THEN [kind |-> "invalid", id |-> 0]
       ELSE IF ~date.ok THEN [kind |-> "invalid", id |-> 0]
       ELSE IF name = <<>> \/ category = <<>> THEN [kind |-> "invalid", id |-> 0]
       ELSE [kind |-> "valid", id |-> id.v]

\* lines 262-268: what is queued for the insert loop
Queued(record) ==
  [id |-> record[1], name |-> TrimSpace(record[2]),
   category |-> TrimSpace(record[3]), price |-> record[4],
   create_date |-> TrimSpace(record[5])]

\* lines 198-270, one turn: at k = 1 the file is read and its header
\* skipped; at k > 1 the row is validated and, unless it is dropped or seen,
\* looked up with SELECT EXISTS(... WHERE id = $1)
IdRow(r) ==
  /\ req[r].pc = "row"
  /\ LET rq == req[r]
         file == rq.archive[rq.f]
         v == ValidateId(file[rq.k])
         counted == [rq EXCEPT !.totalCount = rq.totalCount + 1]
     IN
     IF rq.k = 1
     THEN /\ req' = [req EXCEPT ![r] =
               IF ReadAll(file).ok THEN AfterRow(rq)
               ELSE [rq EXCEPT !.pc = "done", !.resp = Failure("csv")]]
          /\ UNCHANGED conn
     ELSE IF v.kind = "short"
     THEN req' = [req EXCEPT ![r] = AfterRow(rq)] /\ UNCHANGED conn
     ELSE IF v.kind = "invalid"
     THEN req' = [req EXCEPT ![r] = AfterRow(counted)] /\ UNCHANGED conn
     ELSE IF v.id \in rq.seen
     THEN /\ req' = [req EXCEPT ![r] =
               AfterRow([counted EXCEPT !.dups = rq.dups + 1])]
          /\ UNCHANGED conn
     ELSE \E o \in Outcomes(r) :
       IF o = "ok" /\ Usable
       THEN /\ req' = [req EXCEPT ![r] =
                 IF \E x \in Visible : x.id = v.id
                 THEN AfterRow([counted EXCEPT !.dups = rq.dups + 1])
                 ELSE AfterRow([counted EXCEPT
                        !.seen = rq.seen \cup {v.id},
                        !.cats = rq.cats \cup {TrimSpace(file[rq.k][3])},
                        !.recs = Append(rq.recs, Queued(file[rq.k]))])]
            /\ UNCHANGED conn
       ELSE /\ req' = [req EXCEPT ![r] =
                 [counted EXCEPT !.pc = "done", !.resp = Failure("database")]]
            /\ conn' = IF o = "lost" THEN "closed" ELSE conn
  /\ txRows' = IF conn' = "closed" THEN {} ELSE txRows
  /\ UNCHANGED <<build, store>>

\* lines 272-281: INSERT INTO prices (id, name, category, price,
\* create_date) with the queued texts converted again, errors dropped; a
\* failed insert is counted as a duplicate
IdInsert(r) ==
  /\ req[r].pc = "idinsert"
  /\ LET rq == req[r]
         rec == rq.recs[rq.i]
         res == ExecInsert(Visible,
                  [id |-> IdOf(Atoi(rec.id).v), name |-> rec.name,
                   category |-> rec.category, price |-> ParseFloat(rec.price).v,
                   create_date |-> ParseDate(rec.create_date).v])
         next == [rq EXCEPT !.i = rq.i + 1,
                    !.pc = IF rq.i + 1 > Len(rq.recs) THEN "stats" ELSE "idinsert"]
     IN \E o \in Outcomes(r) :
       IF o = "ok" /\ Usable /\ res.ok
       THEN /\ req' = [req EXCEPT ![r] =
                 [next EXCEPT !.wrote = rq.wrote \cup {res.row}]]
            /\ txRows' = IF conn = "tx" THEN txRows \cup {res.row} ELSE txRows
            /\ store' = IF conn = "tx" THEN store ELSE store \cup {res.row}
            /\ UNCHANGED conn
       ELSE /\ req' = [req EXCEPT ![r] = [next EXCEPT !.dups = rq.dups + 1]]
            /\ conn' = IF o = "lost" THEN "closed"
                       ELSE IF o = "ok" /\ conn = "tx" THEN "failed" ELSE conn
            /\ txRows' = IF o = "lost" THEN {} ELSE txRows
            /\ UNCHANGED store
  /\ UNCHANGED build

RECURSIVE SumPrice(_)
SumPrice(t) ==
  IF t = {} THEN Num(0)
  ELSE LET x == CHOOSE y \in t : TRUE IN
       Plus(ToFloat(x.price), SumPrice(t \ {x}))

Categories(t) == {x.category : x \in t}

\* lines 283-299: SELECT COUNT(*), COUNT(DISTINCT category),
\* COALESCE(SUM(price), 0) FROM prices, then the summary
IdStats(r) ==
  /\ req[r].pc = "stats"
  /\ LET rq == req[r] IN
     \E o \in Outcomes(r) :
       IF o = "ok" /\ Usable
       THEN /\ req' = [req EXCEPT ![r] = [rq EXCEPT !.pc = "done", !.resp =
                 [status |-> 200, err |-> "none",
                  total_count |-> rq.totalCount,
                  duplicates_count |-> rq.dups,
                  total_items |-> Cardinality(Visible),
                  total_categories |-> Cardinality(Categories(Visible)),
                  total_price |-> SumPrice(Visible)]]]
            /\ UNCHANGED conn
       ELSE /\ req' = [req EXCEPT ![r] =
                 [rq EXCEPT !.pc = "done", !.resp = Failure("stats")]]
            /\ conn' = IF o = "lost" THEN "closed" ELSE conn
  /\ txRows' = IF conn' = "closed" THEN {} ELSE txRows
  /\ UNCHANGED <<build, store>>

IdStep(r) ==
  \/ IdRow(r)
  \/ IdInsert(r)
  \/ IdStats(r)

(* ------------------------- export (getPrices) -------------------------- *)
\* strconv.Itoa
RECURSIVE Itoa(_)
Itoa(n) ==
  IF n < 0 THEN <<"-">> \o Itoa(0 - n)
  ELSE IF n < 10 THEN <<DigitChars[n + 1]>>
  ELSE Itoa(n \div 10) \o <<DigitChars[(n % 10) + 1]>>

\* the decimal digits of n >= 0, zero-padded to w places
RECURSIVE Pad(_, _)
Pad(n, w) ==
  IF w = 0 THEN <<>> ELSE Pad(n \div 10, w - 1) \o <<DigitChars[(n % 10) + 1]>>

\* strconv.FormatFloat(p, 'f', 2, 64).  The prices formatted are scanned
\* from DECIMAL(10, 2), whole cents, so that no rounding case arises.
FormatFloat(p) ==
  LET c == Round2(p).c
      mag == IF c < 0 THEN 0 - c ELSE c
  IN IF p.nan THEN <<"N", "a", "N">>
     ELSE (IF c < 0 THEN <<"-">> ELSE <<>>)
          \o Itoa(mag \div 100) \o <<".">> \o Pad(mag % 100, 2)

\* time.Time.Format("2006-01-02") of the day number v
FormatDate(v) ==
  Pad(v \div 10000, 4) \o <<"-">> \o Pad((v \div 100) % 100, 2)
  \o <<"-">> \o Pad(v % 100, 2)

\* PostgreSQL's order of numeric: NaN is equal to NaN and above every number
NumGeq(a, b) == a.nan \/ (~b.nan /\ a.m >= b.m)

\* [mutant] the bounds taken as exclusive
WhereStrict(x, q) ==
  /\ q.start # <<>> => x.create_date > ParseDate(q.start).v
  /\ q.end # <<>> => x.create_date < ParseDate(q.end).v
  /\ q.min # <<>> => ~NumGeq(ParseFloat(q.min).v, ToFloat(x.price))
  /\ q.max # <<>> => ~NumGeq(ToFloat(x.price), ParseFloat(q.max).v)

\* lines 165-191: WHERE 1=1 and one predicate for each non-empty parameter
Where(x, q) ==
  /\ q.start # <<>> => x.create_date >= ParseDate(q.start).v
  /\ q.end # <<>> => x.create_date <= ParseDate(q.end).v
  /\ q.min # <<>> => NumGeq(ToFloat(x.price), ParseFloat(q.min).v)
  /\ q.max # <<>> => NumGeq(ParseFloat(q.max).v, ToFloat(x.price))

\* the parameters are sent as text: the statement fails when the server
\* cannot read one as a date or as a numeric
BindsOk(q) ==
  /\ q.start # <<>> => ParseDate(q.start).ok
  /\ q.end # <<>> => ParseDate(q.end).ok
  /\ q.min # <<>> => ParseFloat(q.min).ok
  /\ q.max # <<>> => ParseFloat(q.max).ok

\* ORDER BY id
RECURSIVE OrderById(_)
OrderById(t) ==
  IF t = {} THEN <<>>
  ELSE LET x == CHOOSE y \in t : \A z \in t : y.id <= z.id IN
       <<x>> \o OrderById(t \ {x})

ExportHeader ==
  << <<"i", "d">>, <<"n", "a", "m", "e">>,
     <<"c", "a", "t", "e", "g", "o", "r", "y">>, <<"p", "r", "i", "c", "e">>,
     <<"c", "r", "e", "a", "t", "e", "_", "d", "a", "t", "e">> >>

\* lines 229-237: one CSV record for a scanned row
CsvRecord(x) ==
  <<Itoa(x.id), x.name, x.category, FormatFloat(ToFloat(x.price)),
    FormatDate(x.create_date)>>

\* lines 159-262: one query on the shared connection, then the CSV
GetPrices(r, q) ==
  /\ req[r].pc = "idle"
  /\ \E o \in Outcomes(r) :
       IF o = "ok" /\ Usable /\ BindsOk(q)
       THEN /\ LET rows == OrderById({x \in Visible : Where(x, q)}) IN
               req' = [req EXCEPT ![r] =
                 [IdleReq EXCEPT !.pc = "done", !.query = q, !.before = store,
                    !.resp = [NoResp EXCEPT !.status = 200],
                    !.csvData = <<ExportHeader>>
                       \o [n \in 1..Len(rows) |-> CsvRecord(rows[n])]]]
            /\ UNCHANGED conn
       ELSE /\ req' = [req EXCEPT ![r] =
                 [IdleReq EXCEPT !.pc = "done", !.query = q, !.before = store,
                                 !.resp = Failure("query")]]
            /\ conn' = IF o = "lost" THEN "closed"
                       ELSE IF o = "ok" /\ conn = "tx" THEN "failed" ELSE conn
  /\ txRows' = IF conn' = "closed" THEN {} ELSE txRows
  /\ UNCHANGED <<build, store>>

(* --------------------------- specifications ---------------------------- *)
\* requests served one after another, by either build, on one database
Next ==
  \/ \E b \in Builds : Boot(b)
  \/ \E a \in Archives : ReceiveContent(1, a)
  \/ \E a \in Archives : ReceiveId(1, a)
  \/ ContentStep(1)
  \/ IdStep(1)
  \/ Finish(1)

Spec == Init /\ [][Next]_vars

\* the same, on archives whose rows are all valid: every record of a batch
\* reaches the database
ValidArchives == ArchivesOver({Hdr5}, {RowA, RowC}, MaxFiles, MaxRows)

NextValid ==
  \/ \E b \in Builds : Boot(b)
  \/ \E a \in ValidArchives : ReceiveContent(1, a)
  \/ \E a \in ValidArchives : ReceiveId(1, a)
  \/ ContentStep(1)
  \/ IdStep(1)
  \/ Finish(1)

SpecValid == Init /\ [][NextValid]_vars

\* the content-keyed build alone, on the table initDB has created
InitContent == Init /\ build = "content"

NextContent ==
  \/ Boot("content")
  \/ \E a \in Archives : ReceiveContent(1, a)
  \/ ContentStep(1)
  \/ Finish(1)

SpecContent == InitContent /\ [][NextContent]_vars

\* two requests of one build at the same time on the one connection
RaceArchives == ArchivesOver({Hdr5}, {RowA, RowB}, 1, MaxRows)

NextRace ==
  \E r \in Slots :
    \/ \E a \in RaceArchives : ReceiveContent(r, a)
    \/ \E a \in RaceArchives : ReceiveId(r, a)
    \/ ContentStep(r)
    \/ IdStep(r)
    \/ Finish(r)

SpecRace == Init /\ [][NextRace]_vars

\* one archive sent a second time, after the first request has ended
FirstContent(a) == req[2].pc = "idle" /\ ReceiveContent(1, a)

FirstId(a) == req[2].pc = "idle" /\ ReceiveId(1, a)

AgainContent == req[1].pc = "done" /\ ReceiveContent(2, req[1].archive)

AgainId == req[1].pc = "done" /\ ReceiveId(2, req[1].archive)

FinishFirst == req[2].pc = "idle" /\ Finish(1)

NextReingest ==
  \/ \E b \in Builds : Boot(b)
  \/ \E a \in Archives : FirstContent(a)
  \/ \E a \in Archives : FirstId(a)
  \/ AgainContent
  \/ AgainId
  \/ \E r \in Slots : ContentStep(r)
  \/ \E r \in Slots : IdStep(r)
  \/ FinishFirst

SpecReingest == Init /\ [][NextReingest]_vars

\* validation alone: one file, one data row, every field varied
PNames == {<<"a">>, <<" ", "a", " ">>, <<" ">>, <<>>}

PCategories == {<<"c">>, <<" ">>}

PPrices ==
  {P100, <<" ", "1", ".", "0", "0", " ">>, <<"0">>, <<"-", "1">>,
   <<"N", "a", "N">>, <<"x">>, <<"0", ".", "0", "0", "4">>, <<>>}

PDates ==
  {D1, <<" ">> \o D1, <<"2", "0", "2", "4", "-", "1", "-", "5">>,
   <<"2", "0", "2", "3", "-", "0", "2", "-", "2", "9">>}

Row6 == RowA \o << <<"x">> >>

Hdr6 == Hdr5 \o << <<"x">> >>

ParseRows ==
  {<< <<"1">>, n, c, p, d >> : n \in PNames, c \in PCategories,
                               p \in PPrices, d \in PDates}
  \cup {RowShort, Row6}

ParseArchives ==
  {<< <<h, row>> >> : h \in {Hdr4, Hdr5, Hdr6, RowA}, row \in ParseRows}

InitParse == Init /\ build = "content"

NextParse == \E a \in ParseArchives : ReceiveContent(1, a)

SpecParse == InitParse /\ [][NextParse]_vars

\* uploads as bytes: archives of entries, sound and damaged
MaxEntries == 2

NData == <<"d", "a", "t", "a", ".", "c", "s", "v">>

NUpper == <<"D", "A", "T", "A", ".", "C", "S", "V">>

NFork == <<".", "_", "d", "a", "t", "a", ".", "c", "s", "v">>

NForkInDir == <<"d", "/", ".", "_", "a", ".", "c", "s", "v">>

NInForkDir == <<".", "_", "d", "/", "a", ".", "c", "s", "v">>

NText == <<"a", ".", "t", "x", "t">>

NDir == <<"d", ".", "c", "s", "v">>

\* the content of an entry: one row, which tells the entries apart
ContentOf(name) ==
  IF name = NData THEN <<Hdr5, RowA>>
  ELSE IF name = NUpper THEN <<Hdr5, RowZero>>
  ELSE <<Hdr5, RowC>>

Entry(name, typ, hdr, body) ==
  [name |-> name, typ |-> typ, hdr |-> hdr, body |-> body,
   content |-> ContentOf(name)]

SoundEntries ==
  {Entry(n, "reg", TRUE, TRUE) :
     n \in {NData, NUpper, NFork, NForkInDir, NInForkDir, NText}}
  \cup {Entry(NDir, "dir", TRUE, TRUE)}

\* a corrupt header; a truncated or unreadable body, of a CSV member and of
\* another member
DamagedEntries ==
  {Entry(NData, "reg", FALSE, TRUE), Entry(NData, "reg", TRUE, FALSE),
   Entry(NText, "reg", TRUE, FALSE)}

RECURSIVE SeqsUpTo(_, _)
SeqsUpTo(S, n) ==
  IF n = 0 THEN {<<>>}
  ELSE LET shorter == SeqsUpTo(S, n - 1) IN
       shorter \cup {Append(q, x) : q \in shorter, x \in S}

\* a zip holds no directory-typed entry other than a name ending in "/"
Uploads ==
  {[format |-> "tar", dirOk |-> TRUE, entries |-> es] :
     es \in SeqsUpTo(SoundEntries \cup DamagedEntries, MaxEntries)}
  \cup
  {[format |-> "zip", dirOk |-> d, entries |-> es] :
     d \in BOOLEAN,
     es \in SeqsUpTo({e \in SoundEntries \cup DamagedEntries : e.typ = "reg"},
                     MaxEntries)}

NextExtract ==
  \/ \E data \in Uploads : \E t \in {"zip", "tar"} : UploadContent(1, data, t)
  \/ ContentStep(1)
  \/ Finish(1)

SpecExtract == InitContent /\ [][NextExtract]_vars

\* ingestion in slot 1, then export in slot 2 while slot 1 shows what was
\* ingested; one request at a time
D2 == <<"2", "0", "2", "4", "-", "0", "2", "-", "0", "1">>

RowD == << <<"4">>, <<"b">>, <<"c">>, <<"2", ".", "5", "0">>, D2 >>

ExportArchives == ArchivesOver({Hdr5}, {RowA, RowC, RowD}, 1, MaxRows)

Queries ==
  [start : {<<>>, D1, D2, <<"x">>}, end : {<<>>, D1},
   min : {<<>>, P100, <<"1", ".", "0", "0", "1">>},
   max : {<<>>, P100, <<"x">>}]

NextExport ==
  \/ \E b \in Builds : Boot(b)
  \/ \E a \in ExportArchives : req[2].pc = "idle" /\ ReceiveContent(1, a)
  \/ \E a \in ExportArchives : req[2].pc = "idle" /\ ReceiveId(1, a)
  \/ ContentStep(1)
  \/ IdStep(1)
  \/ \E q \in Queries : req[1].pc \in {"idle", "done"} /\ GetPrices(2, q)
  \/ \E r \in Slots : Finish(r)

SpecExport == Init /\ [][NextExport]_vars

\* the identifier-keyed build alone, on rows that differ in how their
\* identifier and price columns are written
RowE == << <<"1">>, <<"e">>, <<"c">>, P100, D1 >>

\* identifier and price with a leading blank; a negative identifier
RowPad == << <<" ", "6">>, <<"a">>, <<"c">>, P100, D1 >>

RowPadPrice == << <<"4">>, <<"a">>, <<"c">>, <<" ", "1", ".", "0", "0">>, D1 >>

RowNeg == << <<"-", "1">>, <<"a">>, <<"c">>, P100, D1 >>

IdRows == {RowA, RowE, RowC, RowPad, RowPadPrice, RowNeg}

IdArchives == ArchivesOver({Hdr5}, IdRows, MaxFiles, MaxRows)

InitId == Init /\ build = "id"

NextId ==
  \/ Boot("id")
  \/ \E a \in IdArchives : ReceiveId(1, a)
  \/ IdStep(1)
  \/ Finish(1)

SpecId == InitId /\ [][NextId]_vars

(* ------------------------------- claims -------------------------------- *)
\* no connection failure has happened since the build started (requests
\* served one after another: a failure leaves the connection closed)
Clean == conn # "closed"

Done(r) == req[r].pc = "done"

RECURSIVE DataRowsOf(_)
DataRowsOf(files) ==
  IF files = <<>> THEN <<>>
  ELSE (IF Head(files) = <<>> THEN <<>> ELSE Tail(Head(files)))
       \o DataRowsOf(Tail(files))

Readable(files) == \A n \in 1..Len(files) : ReadAll(files[n]).ok

\* the request in slot r carries two valid rows of one dedup key k that the
\* store did not hold when the request came in
ContentTwin(r, k) ==
  /\ build = "content"
  /\ \E m \in 1..Len(req[r].recs) : \E n \in 1..Len(req[r].recs) :
       m < n /\ req[r].recs[m] = k /\ req[r].recs[n] = k
  /\ ~\E x \in req[r].before : ContentMatch(x, k)

IdTwin(r, k) ==
  /\ build = "id"
  /\ Readable(req[r].archive)
  /\ LET rows == DataRowsOf(req[r].archive) IN
     \E m \in 1..Len(rows) : \E n \in 1..Len(rows) :
       /\ m < n
       /\ ValidateId(rows[m]) = [kind |-> "valid", id |-> k]
       /\ ValidateId(rows[n]) = [kind |-> "valid", id |-> k]
  /\ ~\E x \in req[r].before : x.id = k

\* C4: of two valid rows of one batch with the same dedup key, not yet in
\* the store, exactly one is inserted and the other is counted in
\* duplicates_count
C4_OneOfTwoInserted ==
  \A r \in Slots : (Done(r) /\ Clean) =>
    /\ \A k \in {req[r].recs[n] : n \in 1..Len(req[r].recs)} :
         ContentTwin(r, k) =>
           /\ req[r].resp.status = 200
           /\ Cardinality({x \in req[r].wrote \cap store : ContentMatch(x, k)}) = 1
           /\ req[r].resp.duplicates_count >= 1
    /\ \A k \in 0..9 :
         IdTwin(r, k) =>
           /\ req[r].resp.status = 200
           /\ Cardinality({x \in req[r].wrote \cap store : x.id = k}) = 1
           /\ req[r].resp.duplicates_count >= 1

\* the rows of the archive that pass the build's validation
ValidCount(b, files) ==
  LET rows == DataRowsOf(files) IN
  Cardinality({n \in 1..Len(rows) :
    IF b = "content" THEN ValidateContent(rows[n]).ok
    ELSE ValidateId(rows[n]).kind = "valid"})

\* C5: an archive that can be read and holds valid rows, sent a second time,
\* adds nothing to the store and reports as duplicates_count the number of
\* records the first run accepted
C5_ReingestIsIdempotent ==
  (/\ Done(1) /\ Done(2) /\ Clean
   /\ Readable(req[1].archive)
   /\ ValidCount(build, req[1].archive) > 0) =>
    /\ req[2].resp.status = 200
    /\ store = req[2].before
    /\ req[2].resp.duplicates_count = ValidCount(build, req[1].archive)

\* some data row of some file has fewer fields than the file's header row
HasShortRow(files) ==
  \E n \in 1..Len(files) : \E m \in 2..Len(files[n]) :
    Len(files[n][m]) < Len(files[n][1])

\* C6: a data row with fewer columns than the header is dropped on its own:
\* the request does not fail on it
C6_ShortRowDropped ==
  \A r \in Slots :
    (Done(r) /\ HasShortRow(req[r].archive)) => req[r].resp.err # "csv"

\* a row as the claim accepts it: five columns, price a number above zero,
\* date YYYY-MM-DD, name and category not blank
ClaimValid(record) ==
  /\ Len(record) >= 5
  /\ LET price == ParseFloat(TrimSpace(record[4])) IN
     price.ok /\ ~price.v.nan /\ price.v.m > 0
  /\ ParseDate(TrimSpace(record[5])).ok
  /\ TrimSpace(record[2]) # <<>> /\ TrimSpace(record[3]) # <<>>

\* C7: a data row is in the batch of valid records if and only if it has
\* five columns, a price that is a number above zero, a YYYY-MM-DD date and
\* a name and a category; the first row of a file never is
C7_AcceptedIffValid ==
  (build = "content" /\ req[1].pc = "begin") =>
    LET rows == DataRowsOf(req[1].archive) IN
    Len(req[1].recs) = Cardinality({n \in 1..Len(rows) : ClaimValid(rows[n])})

\* C8: total_count is the number of data rows of the archive's CSV files,
\* the rows that validation drops included
C8_TotalCountsAllRows ==
  \A r \in Slots :
    (Done(r) /\ req[r].resp.status = 200) =>
      req[r].resp.total_count = RowCount(req[r].archive)

\* C9: after a content-keyed commit, total_items, total_categories and
\* total_price describe the whole store
C9_SummaryOverStore ==
  \A r \in Slots :
    (build = "content" /\ Done(r) /\ req[r].resp.status = 200) =>
      /\ req[r].resp.total_items = Cardinality(store)
      /\ req[r].resp.total_categories = Cardinality(Categories(store))
      /\ req[r].resp.total_price = SumPrice(store)

\* C10: an archive whose files can all be read and whose rows, one at
\* least, all fail validation is answered with success, total_items = 0 and
\* duplicates_count = 0, and the store is unchanged, whatever it held
C10_AllInvalid ==
  \A r \in Slots :
    (/\ Done(r) /\ Clean
     /\ Readable(req[r].archive)
     /\ RowCount(req[r].archive) > 0
     /\ ValidCount(build, req[r].archive) = 0) =>
      /\ req[r].resp.status = 200
      /\ req[r].resp.total_items = 0
      /\ req[r].resp.duplicates_count = 0
      /\ store = req[r].before

\* the upload of slot r has some damage: bytes of another format than the
\* declared one, no zip directory, an entry with a corrupt header or with a
\* body that cannot be read to its end
Damaged(r) ==
  \/ req[r].data.format # req[r].archiveType
  \/ ~req[r].data.dirOk
  \/ \E n \in 1..Len(req[r].data.entries) :
       ~req[r].data.entries[n].hdr \/ ~req[r].data.entries[n].body

\* the damage is met when the archive is read as the code reads it: a tar
\* is read entry after entry, of a zip only the directory and the CSV
\* members
DamagedAsRead(r) ==
  \/ req[r].data.format # req[r].archiveType
  \/ ~req[r].data.dirOk
  \/ \E n \in 1..Len(req[r].data.entries) :
       LET e == req[r].data.entries[n] IN
       /\ ~e.hdr \/ ~e.body
       /\ req[r].archiveType = "tar"
          \/ (~HasPrefix(Base(e.name), DotUnderscore)
              /\ HasSuffix(ToLower(e.name), DotCsv))

\* the request of slot r was refused at the archive: no row parsed, no
\* statement run, the store as it was
RefusedAtArchive(r) ==
  /\ req[r].pc = "done"
  /\ req[r].resp = Failure("archive")
  /\ req[r].archive = <<>> /\ req[r].recs = <<>>
  /\ store = req[r].before

\* C11 (as stated): a damaged upload is refused at the archive, whatever was
\* read before the damage
C11_DamagedRefused ==
  \A r \in Slots : (req[r].pc # "idle" /\ Damaged(r)) => RefusedAtArchive(r)

\* C11 (amended): an upload whose damage is met while reading -- anywhere in
\* a tar, in the directory or in a CSV member of a zip -- is refused at the
\* archive, whatever was read before the damage
C11_DamagedAsReadRefused ==
  \A r \in Slots :
    (req[r].pc # "idle" /\ DamagedAsRead(r)) => RefusedAtArchive(r)

\* C11 witness: a request refused on an archive whose first entry is a
\* sound CSV member and whose second entry is damaged
C11_Witness ==
  /\ req[1].pc = "done" /\ DamagedAsRead(1)
  /\ Len(req[1].data.entries) = 2
  /\ req[1].data.entries[1] = Entry(NData, "reg", TRUE, TRUE)
  /\ ~req[1].data.entries[2].body
  /\ req[1].data.format = req[1].archiveType

\* the last element of an entry name: what follows its last "/"
RECURSIVE LastElement(_)
LastElement(name) ==
  IF \E i \in 1..Len(name) : name[i] = "/"
  THEN LastElement(Tail(name))
  ELSE name

\* the entries the claim selects, in archive order
ClaimSelects(e, archiveType) ==
  /\ archiveType = "tar" => e.typ = "reg"
  /\ ~HasPrefix(LastElement(e.name), DotUnderscore)
  /\ HasSuffix(ToLower(e.name), DotCsv)

\* C12: from an undamaged archive extractCSVFiles returns, in archive order,
\* exactly the entries whose base name does not start with "._" and whose
\* lower-cased name ends with ".csv" (regular files only, in a tar), and
\* these are the files the request parses
C12_SelectsCsvMembers ==
  \A r \in Slots :
    (req[r].pc # "idle" /\ ~Damaged(r)) =>
      LET x == extractCSVFiles(req[r].data, req[r].archiveType)
          want == SelectSeq(req[r].data.entries,
                            LAMBDA e : ClaimSelects(e, req[r].archiveType))
      IN /\ x.files = [n \in 1..Len(want) |-> csvFileData(want[n])]
         /\ req[r].archive = [n \in 1..Len(want) |-> want[n].content]

\* C12 witness: a tar of "._data.csv" and "data.csv", of which data.csv
\* alone is parsed
C12_Witness ==
  /\ req[1].pc = "begin" /\ req[1].archiveType = "tar"
  /\ req[1].data.format = "tar"
  /\ req[1].data.entries =
       <<Entry(NFork, "reg", TRUE, TRUE), Entry(NData, "reg", TRUE, TRUE)>>
  /\ req[1].archive = <<ContentOf(NData)>>

\* slot r holds the answer of an export request
Exported(r) == req[r].pc = "done" /\ req[r].csvData # <<>>

\* record x satisfies the bounds of q that are present, each inclusive
WithinBounds(x, q) ==
  /\ q.start = <<>> \/ x.create_date >= ParseDate(q.start).v
  /\ q.end = <<>> \/ x.create_date <= ParseDate(q.end).v
  /\ q.min = <<>> \/ ToFloat(x.price).m >= ParseFloat(q.min).v.m
  /\ q.max = <<>> \/ ToFloat(x.price).m <= ParseFloat(q.max).v.m

\* the bounds of q that are present are dates and numbers
WellFormed(q) ==
  /\ q.start = <<>> \/ ParseDate(q.start).ok
  /\ q.end = <<>> \/ ParseDate(q.end).ok
  /\ q.min = <<>> \/ (ParseFloat(q.min).ok /\ ~ParseFloat(q.min).v.nan)
  /\ q.max = <<>> \/ (ParseFloat(q.max).ok /\ ~ParseFloat(q.max).v.nan)

\* the identifiers of the exported rows
ExportedIds(r) ==
  {Atoi(req[r].csvData[n][1]).v : n \in 2..Len(req[r].csvData)}

\* C13: an export whose present bounds are dates and numbers returns exactly
\* the stored records that satisfy every present bound, bounds included; an
\* absent bound excludes nothing
C13_ExportFilters ==
  \A r \in Slots :
    (/\ req[r].pc = "done"
     /\ (req[r].csvData # <<>> \/ req[r].resp.err = "query")
     /\ WellFormed(req[r].query) /\ Clean) =>
      /\ req[r].resp.status = 200
      /\ Len(req[r].csvData) =
           1 + Cardinality({x \in store : WithinBounds(x, req[r].query)})
      /\ ExportedIds(r) =
           {x.id : x \in {y \in store : WithinBounds(y, req[r].query)}}

\* C13 witness: an export with a start and a min bound that returned a
\* record lying on both bounds and left another record out
C13_Witness ==
  /\ Exported(2)
  /\ req[2].query.start # <<>> /\ req[2].query.min # <<>>
  /\ \E x \in store :
       /\ x.create_date = ParseDate(req[2].query.start).v
       /\ ToFloat(x.price) = ParseFloat(req[2].query.min).v
       /\ x.id \in ExportedIds(2)
  /\ \E x \in store : x.id \notin ExportedIds(2)

\* the (name, category, price, create_date) tuples of rows as parsed, the
\* price in two decimals
TuplesOf(rows) ==
  {[name |-> TrimSpace(rows[n][2]), category |-> TrimSpace(rows[n][3]),
    price |-> Round2(ParseFloat(TrimSpace(rows[n][4])).v),
    create_date |-> ParseDate(TrimSpace(rows[n][5])).v] : n \in 1..Len(rows)}

\* the rows are valid for the build and pairwise distinct in identifier and
\* in content
ValidDistinct(b, rows) ==
  /\ \A n \in 1..Len(rows) :
       IF b = "content" THEN ValidateContent(rows[n]).ok
       ELSE ValidateId(rows[n]).kind = "valid"
  /\ Cardinality(TuplesOf(rows)) = Len(rows)
  /\ Cardinality({rows[n][1] : n \in 1..Len(rows)}) = Len(rows)

\* C14: after N valid, pairwise distinct rows were sent to an empty store,
\* an export without bounds holds N + 1 records, the header first and the
\* rows by ascending id, and its rows parse back to the tuples sent
C14_RoundTrip ==
  (/\ Done(1) /\ req[1].archive # <<>> /\ req[1].before = {}
   /\ ValidDistinct(build, DataRowsOf(req[1].archive))
   /\ Exported(2) /\ req[2].query = NoQuery /\ Clean) =>
    LET rows == DataRowsOf(req[1].archive)
        out == req[2].csvData
    IN /\ Len(out) = Len(rows) + 1
       /\ out[1] = ExportHeader
       /\ \A m \in 2..Len(out) : \A n \in 2..Len(out) :
            m < n => Atoi(out[m][1]).v < Atoi(out[n][1]).v
       /\ TuplesOf(Tail(out)) = TuplesOf(rows)

\* row n of rows is valid and its identifier was seen in an earlier valid
\* row of the batch or is held by the store t
IdDuplicate(rows, n, t) ==
  LET v == ValidateId(rows[n]) IN
  /\ v.kind = "valid"
  /\ \/ \E x \in t : x.id = v.id
     \/ \E m \in 1..(n - 1) : ValidateId(rows[m]) = v

\* row n of rows is valid and is the first of its identifier, new to t
IdFirst(rows, n, t) ==
  ValidateId(rows[n]).kind = "valid" /\ ~IdDuplicate(rows, n, t)

\* C15: an identifier-keyed request counts in duplicates_count exactly the
\* valid rows whose identifier came earlier in the batch or is in the
\* store, and persists exactly the others, each first occurrence with its
\* own name, category and date
C15_IdDedup ==
  \A r \in Slots :
    (build = "id" /\ Done(r) /\ req[r].resp.status = 200 /\ Clean
     /\ req[r].csvData = <<>>) =>
      LET rows == DataRowsOf(req[r].archive)
          t == req[r].before
      IN /\ req[r].resp.duplicates_count =
              Cardinality({n \in 1..Len(rows) : IdDuplicate(rows, n, t)})
         /\ Cardinality(req[r].wrote) =
              Cardinality({n \in 1..Len(rows) : IdFirst(rows, n, t)})
         /\ \A n \in 1..Len(rows) : IdFirst(rows, n, t) =>
              \E x \in req[r].wrote \cap store :
                /\ x.name = TrimSpace(rows[n][2])
                /\ x.category = TrimSpace(rows[n][3])
                /\ x.create_date = ParseDate(TrimSpace(rows[n][5])).v

\* C16: every stored record has a price above zero
C16_StoredPricePositive ==
  \A x \in store : ~x.price.nan /\ x.price.c > 0

\* C17: every record the identifier-keyed build has stored has a positive
\* identifier, the one validated for its row
C17_StoredIdPositive ==
  /\ build = "id" => \A x \in store : x.id > 0
  /\ \A r \in Slots : build = "id" =>
       \A x \in req[r].wrote :
         \E n \in 1..Len(DataRowsOf(req[r].archive)) :
           /\ ValidateId(DataRowsOf(req[r].archive)[n]) =
                [kind |-> "valid", id |-> x.id]
           /\ x.name = TrimSpace(DataRowsOf(req[r].archive)[n][2])

\* both requests have passed the existence check with identifier k

\* request r stored the record of identifier k; request q lost: it counted
\* the record as a duplicate and ended with its summary
WonAndLost(r, q, k) ==
  /\ \E x \in req[r].wrote \cap store : x.id = k
  /\ ~\E x \in req[q].wrote : x.id = k
  /\ req[r].resp.status = 200
  /\ req[q].resp.status = 200 /\ req[q].resp.duplicates_count >= 1

\* C18: of two concurrent identifier-keyed requests the store never holds
\* two rows of one identifier; when both passed the existence check with it,
\* one stores the record and the other counts it as a duplicate and ends
\* with its summary
C18_PrimaryKeyArbitrates ==
  /\ \A x \in store : \A y \in store : x.id = y.id => x = y
  /\ (build = "id" /\ Done(1) /\ Done(2) /\ Clean) =>
       \A k \in req[1].seen \cap req[2].seen :
         WonAndLost(1, 2, k) \/ WonAndLost(2, 1, k)

\* C19: a content-keyed request with a valid record whose content the store
\* does not hold ends with its summary, and the record is then in the store
\* under an identifier of its own
C19_SurrogateInsert ==
  \A r \in Slots :
    (build = "content" /\ Done(r) /\ Clean /\ req[r].csvData = <<>>) =>
      \A n \in 1..Len(req[r].recs) :
        (~\E x \in req[r].before : ContentMatch(x, req[r].recs[n])) =>
          /\ req[r].resp.status = 200
          /\ \E x \in store \ req[r].before :
               /\ x.name = req[r].recs[n].name
               /\ x.category = req[r].recs[n].category
               /\ x.price = Round2(req[r].recs[n].price)
               /\ x.create_date = req[r].recs[n].createDate
               /\ \A y \in store : y.id = x.id => y = x

\* C20: an identifier-keyed request that ends with a storage failure, at an
\* existence query or at the statistics query, has left no record of its
\* batch in the store
C20_NoPartialCommit ==
  \A r \in Slots :
    (build = "id" /\ Done(r) /\ req[r].resp.err \in {"database", "stats"}) =>
      /\ req[r].wrote = {}
      /\ store = req[r].before

\* the upload of slot r holds no member that is selected as a CSV file
NoCsvMember(r) ==
  ~\E n \in 1..Len(req[r].data.entries) :
     ClaimSelects(req[r].data.entries[n], req[r].archiveType)

\* C21: an undamaged zip or tar without a selected CSV member is an empty
\* batch: the request ends with its summary, total_count and
\* duplicates_count zero, and the store is as it was
C21_NoCsvMemberIsEmptyBatch ==
  \A r \in Slots :
    (build = "content" /\ Done(r) /\ Clean /\ ~Damaged(r) /\ NoCsvMember(r)) =>
      /\ req[r].resp.status = 200
      /\ req[r].resp.total_count = 0
      /\ req[r].resp.duplicates_count = 0
      /\ store = req[r].before

\* C22: in every summary of a content-keyed request total_count is
\* duplicates_count plus total_items, and total_categories is at most
\* total_items
C22_CountsAddUp ==
  \A r \in Slots :
    (build = "content" /\ Done(r) /\ req[r].resp.status = 200
       /\ req[r].csvData = <<>>) =>
      /\ req[r].resp.total_count =
           req[r].resp.duplicates_count + req[r].resp.total_items
      /\ req[r].resp.total_count = Len(req[r].recs)
      /\ req[r].resp.total_categories <= req[r].resp.total_items

\* C22 witness: a summary of a batch of two validated records, both found
\* in the table
C22_Witness ==
  /\ build = "content" /\ Done(1) /\ req[1].resp.status = 200
  /\ req[1].resp.total_count = 2
  /\ req[1].resp.duplicates_count = 2

=============================================================================
